---------------------------- MODULE Spec2Model ----------------------------
(***************************************************************************)
(* Model of the SCg -> SCs writer (src/sc_scs_writer.cpp).                 *)
(*                                                                         *)
(* Strings are sequences of byte values (0..255), so that the two regular  *)
(* expressions of the identifier corrector are character classes over      *)
(* bytes, exactly as std::regex sees a std::string.                        *)
(*                                                                         *)
(* Two specifications:                                                     *)
(*   SpecId - SCgIdentifierCorrector::GenerateSCsIdentifier applied to an  *)
(*            element drawn from bounded sets of tags, ids, raw            *)
(*            identifiers and types;                                       *)
(*   Spec   - SCsWriter::Write, one step per loop iteration, over a        *)
(*            bounded family of element graphs.                            *)
(***************************************************************************)
EXTENDS Integers, Sequences, FiniteSets, TLC

VARIABLES
  scgElement,       \* input of GenerateSCsIdentifier: tag, id, identifier, type
  scsElement,       \* output-side descriptor: identifierForSCs, mainIdentifier
  resolved,         \* GenerateSCsIdentifier has run on scgElement
  target,           \* connector -> the element its GetTarget() refers to
  children,         \* scope -> its keyed element collection (GetElements())
  writtenElements,  \* the write-once set threaded through Write
  buffer,           \* the output buffer: the sequence of statements appended
  stack,            \* activation records of Write, innermost first
  calls             \* number of top-level Write calls started

vars == <<scgElement, scsElement, resolved, target, children,
          writtenElements, buffer, stack, calls>>

idVars == <<scgElement, scsElement, resolved>>
graphVars == <<target, children>>
writeVars == <<writtenElements, buffer, stack, calls>>

---------------------------------------------------------------------------
(* Bounds of the model.                                                    *)

\* longest raw identifier drawn in SpecId
MaxLen == 2

\* number of top-level Write calls on the same write-once set
MaxCalls == 2

---------------------------------------------------------------------------
(* Constants of namespace Constants (sc_scs_writer.hpp is not part of the  *)
(* sources at hand; the values are the ones the specification gives).      *)

\* "_"
UNDERSCORE == <<95>>

\* "-"
DASH == <<45>>

\* "##", the prefix of an alias
ALIAS_PREFIX == <<35, 35>>

\* "connector", the connector prefix of an alias
CONNECTOR == <<99, 111, 110, 110, 101, 99, 116, 111, 114>>

\* "el", the plain-element prefix
EL_PREFIX == <<101, 108>>

\* "_el", the variable-specific prefix
EL_VAR_PREFIX == <<95, 101, 108>>

\* "var", the variable marker of a type descriptor
VAR == <<118, 97, 114>>

NODE == "node"
ARC == "arc"
PAIR == "pair"
CONTOUR == "contour"
BUS == "bus"

---------------------------------------------------------------------------
(* String helpers (std::string and utils::StringUtils).                    *)

\* s starts with the bytes of p
StartsWith(s, p) ==
  /\ Len(s) >= Len(p)
  /\ SubSeq(s, 1, Len(p)) = p

\* std::string::find(sub) != npos
Contains(s, sub) ==
  \E i \in 1..(Len(s) - Len(sub) + 1) : SubSeq(s, i, i + Len(sub) - 1) = sub

\* utils::StringUtils::ReplaceAll: every occurrence of `from`, left to right
RECURSIVE ReplaceAll(_, _, _)
ReplaceAll(s, from, to) ==
  IF s = <<>> \/ from = <<>> THEN s
  ELSE IF StartsWith(s, from)
       THEN to \o ReplaceAll(SubSeq(s, Len(from) + 1, Len(s)), from, to)
       ELSE <<Head(s)>> \o ReplaceAll(Tail(s), from, to)

---------------------------------------------------------------------------
(* Identifier corrector.                                                   *)

\* the class [0-9a-zA-Z_]
EnglishClass == (48..57) \cup (97..122) \cup (65..90) \cup {95}

\* the class [0-9a-zA-Z_\xD0\x80-\xD1\x8F\xD1\x90-\xD1\x8F\xD1\x91\xD0\x81*' ]
RussianClass ==
  EnglishClass \cup {208} \cup (128..209) \cup {143, 209} \cup (144..209)
    \cup {143, 209, 145, 208, 129} \cup {42, 39, 32}

IsEnglishIdentifier(identifier) ==
  \A i \in 1..Len(identifier) : identifier[i] \in EnglishClass

IsRussianIdentifier(identifier) ==
  \A i \in 1..Len(identifier) : identifier[i] \in RussianClass

IsVariable(elementType) == Contains(elementType, VAR)

MakeAlias(prefix, elementId) ==
  ALIAS_PREFIX \o prefix \o UNDERSCORE \o ReplaceAll(elementId, DASH, UNDERSCORE)

\* as below, but the dashes of the element id are kept
GenerateIdentifierForUnresolvedCharacters_KeepDash(systemIdentifier, elementId, isVar) ==
  (IF isVar THEN EL_VAR_PREFIX ELSE EL_PREFIX) \o UNDERSCORE \o elementId

GenerateIdentifierForUnresolvedCharacters(systemIdentifier, elementId, isVar) ==
  (IF isVar THEN EL_VAR_PREFIX ELSE EL_PREFIX)
    \o UNDERSCORE \o ReplaceAll(elementId, DASH, UNDERSCORE)

GenerateSCsIdentifierForVariable(systemIdentifier) ==
  UNDERSCORE \o systemIdentifier

\* as below, but a variable's identifier is never given its underscore
GenerateCorrectedIdentifier_NoVarPrefix(systemIdentifier, elementId, isVar) ==
  IF systemIdentifier = <<>>
  THEN GenerateIdentifierForUnresolvedCharacters(systemIdentifier, elementId, isVar)
  ELSE systemIdentifier

GenerateCorrectedIdentifier(systemIdentifier, elementId, isVar) ==
  IF systemIdentifier = <<>>
  THEN GenerateIdentifierForUnresolvedCharacters(systemIdentifier, elementId, isVar)
  ELSE IF isVar /\ systemIdentifier[1] # UNDERSCORE[1]
       THEN GenerateSCsIdentifierForVariable(systemIdentifier)
       ELSE systemIdentifier

\* as GenerateSCsIdentifier, but only an ARC gets the alias
GenerateSCsIdentifier_ArcOnly(scg, scs) ==
  LET isVar == IsVariable(scg.type)
      raw == scg.identifier
      s1 == IF ~IsEnglishIdentifier(raw)
            THEN [identifierForSCs |-> <<>>,
                  mainIdentifier |-> IF IsRussianIdentifier(raw)
                                     THEN raw ELSE scs.mainIdentifier]
            ELSE [identifierForSCs |-> raw,
                  mainIdentifier |-> scs.mainIdentifier]
      correctedIdentifier ==
        GenerateCorrectedIdentifier(s1.identifierForSCs, scg.id, isVar)
  IN  [s1 EXCEPT !.identifierForSCs =
         IF scg.tag = ARC
         THEN MakeAlias(CONNECTOR, scg.id)
         ELSE correctedIdentifier]

\* as GenerateSCsIdentifier, but every illegal raw identifier becomes the
\* main identifier, natural-language text or not
GenerateSCsIdentifier_MainForAnyIllegal(scg, scs) ==
  LET isVar == IsVariable(scg.type)
      raw == scg.identifier
      s1 == IF ~IsEnglishIdentifier(raw)
            THEN [identifierForSCs |-> <<>>, mainIdentifier |-> raw]
            ELSE [identifierForSCs |-> raw,
                  mainIdentifier |-> scs.mainIdentifier]
      correctedIdentifier ==
        GenerateCorrectedIdentifier(s1.identifierForSCs, scg.id, isVar)
  IN  [s1 EXCEPT !.identifierForSCs =
         IF scg.tag = PAIR \/ scg.tag = ARC
         THEN MakeAlias(CONNECTOR, scg.id)
         ELSE correctedIdentifier]

\* The descriptor scs after GenerateSCsIdentifier(scg, scs).
GenerateSCsIdentifier(scg, scs) ==
  LET isVar == IsVariable(scg.type)
      raw == scg.identifier
      s1 == IF ~IsEnglishIdentifier(raw)
            THEN [identifierForSCs |-> <<>>,
                  mainIdentifier |-> IF IsRussianIdentifier(raw)
                                     THEN raw ELSE scs.mainIdentifier]
            ELSE [identifierForSCs |-> raw,
                  mainIdentifier |-> scs.mainIdentifier]
      correctedIdentifier ==
        GenerateCorrectedIdentifier(s1.identifierForSCs, scg.id, isVar)
  IN  [s1 EXCEPT !.identifierForSCs =
         IF scg.tag = PAIR \/ scg.tag = ARC
         THEN MakeAlias(CONNECTOR, scg.id)
         ELSE correctedIdentifier]

\* a freshly constructed SCsElement
NewSCsElement == [identifierForSCs |-> <<>>, mainIdentifier |-> <<>>]

---------------------------------------------------------------------------
(* Inputs of SpecId.                                                       *)

\* 'x' '1' '_' '-' ' ' '#' and the two bytes of the Cyrillic letter U+041F
Alphabet == {120, 49, 95, 45, 32, 35, 208, 159}

RECURSIVE StringsUpTo(_)
StringsUpTo(n) ==
  IF n = 0 THEN {<<>>}
  ELSE LET shorter == StringsUpTo(n - 1)
       IN  shorter \cup {Append(s, c) : s \in shorter, c \in Alphabet}

RawIdentifiers == StringsUpTo(MaxLen)

\* "1", "1-2", "-1-", "1.2"
ElementIds == {<<49>>, <<49, 45, 50>>, <<45, 49, 45>>, <<49, 46, 50>>}

\* "node/const/general"
TypeConst ==
  <<110, 111, 100, 101, 47, 99, 111, 110, 115, 116, 47, 103, 101, 110, 101, 114, 97, 108>>

\* "node/var/general"
TypeVar ==
  <<110, 111, 100, 101, 47, 118, 97, 114, 47, 103, 101, 110, 101, 114, 97, 108>>

ElementTypes == {TypeConst, TypeVar}

Tags == {NODE, ARC, PAIR, CONTOUR, BUS}

---------------------------------------------------------------------------
(* The element model read by Write (SCgElement and its subclasses).  The   *)
(* elements are fixed; which scope holds which element, and the target of  *)
(* each connector, are drawn by Init.                                      *)

Nodes == {"n1", "n2", "n3"}
Connectors == {"a1", "a2", "a3"}
Contours == {"c1", "c2"}
Buses == {"b1"}
Elements == Nodes \cup Connectors \cup Contours \cup Buses

\* the top-level collection handed to Write, and the collection of each contour
TopScope == "top"
Scopes == {TopScope} \cup Contours

\* SCgElement::GetTag
GetTag(e) ==
  IF e \in Nodes THEN NODE
  ELSE IF e \in Contours THEN CONTOUR
  ELSE IF e \in Buses THEN BUS
  ELSE IF e = "a2" THEN PAIR ELSE ARC

\* SCgElement::GetId: "1" .. "9"
GetId(e) ==
  CASE e = "n1" -> <<49>> [] e = "n2" -> <<50>> [] e = "n3" -> <<51>>
    [] e = "a1" -> <<52>> [] e = "a2" -> <<53>> [] e = "a3" -> <<54>>
    [] e = "c1" -> <<55>> [] e = "c2" -> <<56>> [] e = "b1" -> <<57>>

\* SCgElement::GetIdentifier, the raw identifier: n1 is "n1", n3 is the
\* natural-language text of two Cyrillic letters, a3 is "x1", c2 is "c2";
\* the others have none
GetIdentifier(e) ==
  CASE e = "n1" -> <<110, 49>>
    [] e = "n3" -> <<208, 159, 209, 128>>
    [] e = "a3" -> <<120, 49>>
    [] e = "c2" -> <<99, 50>>
    [] OTHER -> <<>>

\* "arc/const/pos"
TypeArcConstPos == <<97, 114, 99, 47, 99, 111, 110, 115, 116, 47, 112, 111, 115>>

\* "pair/var/noorient"
TypePairVarNoorient ==
  <<112, 97, 105, 114, 47, 118, 97, 114, 47, 110, 111, 111, 114, 105, 101, 110, 116>>

\* "nrel_foo", a type that carries a relation-name prefix
TypeNrelFoo == <<110, 114, 101, 108, 95, 102, 111, 111>>

\* SCgElement::GetType
GetType(e) ==
  CASE e = "n2" -> TypeVar
    [] e = "a1" -> TypeArcConstPos
    [] e = "a2" -> TypePairVarNoorient
    [] e = "a3" -> TypeNrelFoo
    [] OTHER -> TypeConst

\* n2 is an SCgLink; SCgLink::GetContentData gives "x1"
IsLink(e) == e = "n2"
GetContentData(e) == IF IsLink(e) THEN <<120, 49>> ELSE <<>>

\* SCgConnector::GetSource
GetSource(e) ==
  CASE e = "a1" -> "n1" [] e = "a2" -> "n3" [] e = "a3" -> "n2"

\* SCgConnector::GetTarget
GetTarget(e) == target[e]

\* SCgContour::GetElements, and the collection of the top-level call
GetElements(scope) == children[scope]

IsConnector(e) == GetTag(e) = ARC \/ GetTag(e) = PAIR

\* SCgToSCsTypesConverter::ConvertSCgNodeTypeToSCsNodeType: the keyword of
\* a node type, empty when the table has no entry
ConvertSCgNodeTypeToSCsNodeType(type) ==
  IF type = TypeConst THEN "sc_node_const" ELSE ""

\* SCgToSCsTypesConverter::ConvertSCgConnectorTypeToSCsConnectorDesignation:
\* the symbol of a connector type, empty when the table has no entry
ConvertSCgConnectorTypeToSCsConnectorDesignation(type) ==
  IF type = TypeArcConstPos THEN "->"
  ELSE IF type = TypePairVarNoorient THEN "_<=>"
  ELSE ""

---------------------------------------------------------------------------
(* CollectNodes.                                                           *)

RECURSIVE CollectNodes(_, _, _)

\* as CollectNodes, but without the descent into contours
CollectNodes_ScopeOnly(elements, nodes, visitedContours) ==
  [nodes |-> nodes \cup {e \in elements : GetTag(e) = NODE},
   visitedContours |-> visitedContours,
   entered |-> <<>>]

\* as CollectNodes, but every element that is not a contour is collected
CollectNodes_AnyLeaf(elements, nodes, visitedContours) ==
  IF elements = {}
  THEN [nodes |-> nodes, visitedContours |-> visitedContours, entered |-> <<>>]
  ELSE LET element == CHOOSE e \in elements : TRUE
       IN  CHOOSE result \in
             {[CollectNodes(elements \ {element}, body.nodes, body.visitedContours)
                 EXCEPT !.entered = body.entered \o @] :
              body \in
                {IF GetTag(element) # CONTOUR
                 THEN [nodes |-> nodes \cup {element},
                       visitedContours |-> visitedContours,
                       entered |-> <<>>]
                 ELSE IF element \notin visitedContours
                      THEN [CollectNodes(GetElements(element), nodes,
                                         visitedContours \cup {element})
                              EXCEPT !.entered = <<element>> \o @]
                      ELSE [nodes |-> nodes, visitedContours |-> visitedContours,
                            entered |-> <<>>]}} : TRUE

\* [nodes, visitedContours] after CollectNodes(elements, nodes, visitedContours);
\* the loop takes the elements of the collection one by one.  entered lists,
\* for reference, the contours of the recursive calls (line 111) in the
\* order in which they are made.  body is the state after the body of the
\* loop for one element (bound as the member of a singleton, so that it is
\* computed once).
CollectNodes(elements, nodes, visitedContours) ==
  IF elements = {}
  THEN [nodes |-> nodes, visitedContours |-> visitedContours, entered |-> <<>>]
  ELSE LET element == CHOOSE e \in elements : TRUE
       IN  CHOOSE result \in
             {[CollectNodes(elements \ {element}, body.nodes, body.visitedContours)
                 EXCEPT !.entered = body.entered \o @] :
              body \in
                {IF GetTag(element) = NODE
                 THEN [nodes |-> nodes \cup {element},
                       visitedContours |-> visitedContours,
                       entered |-> <<>>]
                 ELSE IF GetTag(element) = CONTOUR /\ element \notin visitedContours
                      THEN [CollectNodes(GetElements(element), nodes,
                                         visitedContours \cup {element})
                              EXCEPT !.entered = <<element>> \o @]
                      ELSE [nodes |-> nodes, visitedContours |-> visitedContours,
                            entered |-> <<>>]}} : TRUE

---------------------------------------------------------------------------
(* Write.  The buffer is the sequence of statements appended; each carries *)
(* the text operands as the code builds them, the depth of its indentation *)
(* and, for reference, the element it is written for (el) and the          *)
(* collection whose Write invocation appended it (scope).                  *)

\* "node_"
NodePrefix == <<110, 111, 100, 101, 95>>

\* "contour_"
ContourPrefix == <<99, 111, 110, 116, 111, 117, 114, 95>>

\* the identifier Write prints for an endpoint or a node: GetIdentifier(),
\* or "node_" + GetId() when that is empty
NodeIdentifierOrFallback(e) ==
  IF GetIdentifier(e) = <<>> THEN NodePrefix \o GetId(e) ELSE GetIdentifier(e)

\* lines 135-152: identifier line, type line, content line of a link
NodeDeclaration(node, scope, depth) ==
  [kind |-> "node", el |-> node, scope |-> scope, depth |-> depth,
   identifier |-> NodeIdentifierOrFallback(node),
   type |-> IF ConvertSCgNodeTypeToSCsNodeType(GetType(node)) = ""
            THEN "node_"
            ELSE ConvertSCgNodeTypeToSCsNodeType(GetType(node)),
   content |-> IF IsLink(node) /\ GetContentData(node) # <<>>
               THEN GetContentData(node) ELSE <<>>]

ConnectorSymbol(connector) ==
  IF ConvertSCgConnectorTypeToSCsConnectorDesignation(GetType(connector)) = ""
  THEN "->"
  ELSE ConvertSCgConnectorTypeToSCsConnectorDesignation(GetType(connector))

\* line 209: source SYMBOL attrSource: target
TernaryEdge(connector, attrSourceId, scope, depth) ==
  [kind |-> "edge", form |-> "ternary", el |-> connector, scope |-> scope,
   depth |-> depth,
   source |-> NodeIdentifierOrFallback(GetSource(connector)),
   symbol |-> ConnectorSymbol(connector),
   attr |-> attrSourceId,
   target |-> NodeIdentifierOrFallback(GetTarget(connector))]

\* lines 216 and 224: source SYMBOL target
BinaryEdge(connector, scope, depth) ==
  [kind |-> "edge", form |-> "binary", el |-> connector, scope |-> scope,
   depth |-> depth,
   source |-> NodeIdentifierOrFallback(GetSource(connector)),
   symbol |-> ConnectorSymbol(connector),
   attr |-> <<>>,
   target |-> NodeIdentifierOrFallback(GetTarget(connector))]

\* lines 237-239: identifier = [*
ContourHeader(contour, scope, depth) ==
  [kind |-> "open", el |-> contour, scope |-> scope, depth |-> depth,
   identifier |-> IF GetIdentifier(contour) = <<>>
                  THEN ContourPrefix \o GetId(contour)
                  ELSE GetIdentifier(contour)]

\* line 241: *];;
ContourEnd(contour, scope, depth) ==
  [kind |-> "close", el |-> contour, scope |-> scope, depth |-> depth]

\* as AttributeArcs, but only a target tagged ARC counts
AttributeArcs_ArcTargetsOnly(elements) ==
  {element \in elements : IsConnector(element) /\ GetTag(GetTarget(element)) = ARC}

\* lines 156-170: the connectors of the collection whose target is a connector
AttributeArcs(elements) ==
  {element \in elements : IsConnector(element) /\ IsConnector(GetTarget(element))}

\* as ComplexArcs, but the pass inserts the connector instead of its target
ComplexArcs_InsertsElement(elements) ==
  {element \in elements : IsConnector(element) /\ IsConnector(GetTarget(element))}

\* lines 156-170: the targets of those connectors
ComplexArcs(elements) ==
  {GetTarget(element) : element \in AttributeArcs(elements)}

\* as IncomingConnectors, but only arcs are taken, not pairs
IncomingConnectors_ArcOnly(elements, element) ==
  {incoming \in elements : GetTag(incoming) = ARC /\ GetTarget(incoming) = element}

\* lines 190-202: the connectors of the collection that target `element`; the
\* loop stops at the first of them in the collection's enumeration order
IncomingConnectors(elements, element) ==
  {incoming \in elements : IsConnector(incoming) /\ GetTarget(incoming) = element}

\* the activation record of Write(elements of scope, depth) on entry: the first
\* loop runs over allNodes = CollectNodes(elements)
WriteFrame(scope, depth) ==
  [scope |-> scope, depth |-> depth, pc |-> "nodes",
   todo |-> CollectNodes(GetElements(scope), {}, {}).nodes,
   complexArcs |-> {}, attributeArcs |-> {}, contour |-> "none"]

Top == Head(stack)

\* the stack with its innermost record replaced
WithTop(frame) == <<frame>> \o Tail(stack)

\* A caller invokes Write on the top-level collection.  The first call starts
\* at depth 0 with the empty write-once set of Init; a later call reuses the
\* set the earlier calls left.
WriteCall ==
  /\ stack = <<>>
  /\ calls < MaxCalls
  /\ \E depth \in (IF calls = 0 THEN {0} ELSE {0, 1}) :
       stack' = <<WriteFrame(TopScope, depth)>>
  /\ calls' = calls + 1
  /\ UNCHANGED <<idVars, graphVars, writtenElements, buffer>>

\* as WriteNode, but without the test of the write-once set
WriteNode_NoGuard ==
  /\ stack # <<>>
  /\ Top.pc = "nodes"
  /\ \E node \in Top.todo :
       /\ stack' = WithTop([Top EXCEPT !.todo = @ \ {node}])
       /\ writtenElements' = writtenElements \cup {node}
       /\ buffer' = Append(buffer, NodeDeclaration(node, Top.scope, Top.depth))
  /\ UNCHANGED <<idVars, graphVars, calls>>

\* lines 131-153: one iteration of the loop over allNodes (an unordered set)
WriteNode ==
  /\ stack # <<>>
  /\ Top.pc = "nodes"
  /\ \E node \in Top.todo :
       /\ stack' = WithTop([Top EXCEPT !.todo = @ \ {node}])
       /\ IF node \in writtenElements
          THEN UNCHANGED <<writtenElements, buffer>>
          ELSE /\ writtenElements' = writtenElements \cup {node}
               /\ buffer' = Append(buffer, NodeDeclaration(node, Top.scope, Top.depth))
  /\ UNCHANGED <<idVars, graphVars, calls>>

\* lines 156-170: the pass that fills complexArcs and attributeArcs
ClassifyArcs ==
  /\ stack # <<>>
  /\ Top.pc = "nodes"
  /\ Top.todo = {}
  /\ stack' = WithTop([Top EXCEPT
       !.pc = "arcs",
       !.complexArcs = ComplexArcs(GetElements(Top.scope)),
       !.attributeArcs = AttributeArcs(GetElements(Top.scope)),
       !.todo = {e \in GetElements(Top.scope) : IsConnector(e)}])
  /\ UNCHANGED <<idVars, graphVars, writtenElements, buffer, calls>>

\* as WriteConnector, but without the test of the write-once set
WriteConnector_NoGuard ==
  /\ stack # <<>>
  /\ Top.pc = "arcs"
  /\ \E element \in Top.todo :
       /\ stack' = WithTop([Top EXCEPT !.todo = @ \ {element}])
       /\ IF element \in Top.attributeArcs
          THEN UNCHANGED <<writtenElements, buffer>>
          ELSE /\ writtenElements' = writtenElements \cup {element}
               /\ IF element \in Top.complexArcs
                  THEN \E first \in IncomingConnectors(GetElements(Top.scope), element) :
                         buffer' = Append(buffer,
                           TernaryEdge(element, NodeIdentifierOrFallback(GetSource(first)),
                                       Top.scope, Top.depth))
                  ELSE buffer' = Append(buffer, BinaryEdge(element, Top.scope, Top.depth))
  /\ UNCHANGED <<idVars, graphVars, calls>>

\* lines 173-227: one iteration of the loop over the connectors of the
\* collection (the iterations for other elements do nothing)
WriteConnector ==
  /\ stack # <<>>
  /\ Top.pc = "arcs"
  /\ \E element \in Top.todo :
       /\ stack' = WithTop([Top EXCEPT !.todo = @ \ {element}])
       /\ IF element \in writtenElements \/ element \in Top.attributeArcs
          THEN UNCHANGED <<writtenElements, buffer>>
          ELSE /\ writtenElements' = writtenElements \cup {element}
               /\ IF element \in Top.complexArcs
                  THEN LET incoming ==
                             IncomingConnectors(GetElements(Top.scope), element)
                       IN  IF incoming = {}
                           THEN buffer' =
                                  Append(buffer, BinaryEdge(element, Top.scope, Top.depth))
                           ELSE \E first \in incoming :
                                  LET attrSourceId ==
                                        NodeIdentifierOrFallback(GetSource(first))
                                  IN  buffer' = Append(buffer,
                                        IF attrSourceId # <<>>
                                        THEN TernaryEdge(element, attrSourceId,
                                                    Top.scope, Top.depth)
                                        ELSE BinaryEdge(element, Top.scope, Top.depth))
                  ELSE buffer' = Append(buffer, BinaryEdge(element, Top.scope, Top.depth))
  /\ UNCHANGED <<idVars, graphVars, calls>>

\* line 230: the connector loop is over, the contour loop begins
BeginContours ==
  /\ stack # <<>>
  /\ Top.pc = "arcs"
  /\ Top.todo = {}
  /\ stack' = WithTop([Top EXCEPT
       !.pc = "contours",
       !.todo = {e \in GetElements(Top.scope) : GetTag(e) = CONTOUR}])
  /\ UNCHANGED <<idVars, graphVars, writtenElements, buffer, calls>>

\* as WriteContour, but without the test of the write-once set
WriteContour_NoGuard ==
  /\ stack # <<>>
  /\ Top.pc = "contours"
  /\ Top.contour = "none"
  /\ \E element \in Top.todo :
       /\ writtenElements' = writtenElements \cup {element}
       /\ buffer' = Append(buffer, ContourHeader(element, Top.scope, Top.depth))
       /\ stack' = <<WriteFrame(element, Top.depth + 1)>>
            \o WithTop([Top EXCEPT !.todo = @ \ {element},
                                   !.contour = element])
  /\ UNCHANGED <<idVars, graphVars, calls>>

\* as WriteContour, but the recursive call is given depth instead of depth + 1
WriteContour_SameDepth ==
  /\ stack # <<>>
  /\ Top.pc = "contours"
  /\ Top.contour = "none"
  /\ \E element \in Top.todo :
       IF element \in writtenElements
       THEN /\ stack' = WithTop([Top EXCEPT !.todo = @ \ {element}])
            /\ UNCHANGED <<writtenElements, buffer>>
       ELSE /\ writtenElements' = writtenElements \cup {element}
            /\ buffer' = Append(buffer, ContourHeader(element, Top.scope, Top.depth))
            /\ stack' = <<WriteFrame(element, Top.depth)>>
                 \o WithTop([Top EXCEPT !.todo = @ \ {element},
                                        !.contour = element])
  /\ UNCHANGED <<idVars, graphVars, calls>>

\* lines 230-240: one iteration of the loop over the contours of the
\* collection, up to and including the recursive call of Write
WriteContour ==
  /\ stack # <<>>
  /\ Top.pc = "contours"
  /\ Top.contour = "none"
  /\ \E element \in Top.todo :
       IF element \in writtenElements
       THEN /\ stack' = WithTop([Top EXCEPT !.todo = @ \ {element}])
            /\ UNCHANGED <<writtenElements, buffer>>
       ELSE /\ writtenElements' = writtenElements \cup {element}
            /\ buffer' = Append(buffer, ContourHeader(element, Top.scope, Top.depth))
            /\ stack' = <<WriteFrame(element, Top.depth + 1)>>
                 \o WithTop([Top EXCEPT !.todo = @ \ {element},
                                        !.contour = element])
  /\ UNCHANGED <<idVars, graphVars, calls>>

\* as Return, but the caller appends no closing marker
Return_NoClosingMarker ==
  /\ stack # <<>>
  /\ Top.pc = "contours"
  /\ Top.todo = {}
  /\ IF Len(stack) = 1
     THEN stack' = <<>>
     ELSE stack' = <<[stack[2] EXCEPT !.contour = "none"]>> \o Tail(Tail(stack))
  /\ UNCHANGED <<idVars, graphVars, writtenElements, buffer, calls>>

\* line 244, then line 241 in the caller: Write returns; a recursive call
\* returns into the contour loop, which closes the contour
Return ==
  /\ stack # <<>>
  /\ Top.pc = "contours"
  /\ Top.todo = {}
  /\ IF Len(stack) = 1
     THEN /\ stack' = <<>>
          /\ UNCHANGED buffer
     ELSE LET caller == stack[2]
          IN  /\ buffer' = Append(buffer, ContourEnd(caller.contour, caller.scope,
                                                    caller.depth))
              /\ stack' = <<[caller EXCEPT !.contour = "none"]>> \o Tail(Tail(stack))
  /\ UNCHANGED <<idVars, graphVars, writtenElements, calls>>

---------------------------------------------------------------------------
(* SpecId: GenerateSCsIdentifier on one element.                           *)

IdleWrite ==
  /\ target = [c \in {} |-> c]
  /\ children = [s \in {} |-> {}]
  /\ writtenElements = {}
  /\ buffer = <<>>
  /\ stack = <<>>
  /\ calls = 0

InitId ==
  /\ scgElement \in [tag : Tags, id : ElementIds,
                     identifier : RawIdentifiers, type : ElementTypes]
  /\ scsElement = NewSCsElement
  /\ resolved = FALSE
  /\ IdleWrite

\* SCgIdentifierCorrector::GenerateSCsIdentifier(scgElement, scsElement)
Resolve ==
  /\ ~resolved
  /\ scsElement' = GenerateSCsIdentifier(scgElement, scsElement)
  /\ resolved' = TRUE
  /\ UNCHANGED <<scgElement, graphVars, writeVars>>

NextId == Resolve

SpecId == InitId /\ [][NextId]_vars

---------------------------------------------------------------------------
(* Spec: Write over a bounded family of element graphs.                    *)

IdleCorrector ==
  /\ scgElement = [tag |-> NODE, id |-> <<49>>, identifier |-> <<>>,
                   type |-> TypeConst]
  /\ scsElement = NewSCsElement
  /\ resolved = FALSE

\* the collections, given for each element the set of scopes that hold it
ChildrenOf(place) ==
  [scope \in Scopes |-> {e \in Elements : scope \in place[e]}]

\* Connector graphs: the three nodes, the bus and contour c1 are at top level;
\* each connector lies at top level, in c1, or in both; a1 targets a node or
\* a2, a2 targets a node or any connector (itself included), a3 targets a
\* node, a1, a2 or the contour.
InitConnectors ==
  /\ \E p1, p2, p3 \in {{TopScope}, {"c1"}, {TopScope, "c1"}} :
       children = ChildrenOf(
         [e \in Elements |->
            CASE e = "a1" -> p1 [] e = "a2" -> p2 [] e = "a3" -> p3
              [] e = "c2" -> {}
              [] OTHER -> {TopScope}])
  /\ \E t1 \in {"n2", "a2"}, t2 \in {"n1", "a1", "a2", "a3"},
        t3 \in {"n2", "a1", "a2", "c1"} :
       target = [c \in Connectors |->
                   CASE c = "a1" -> t1 [] c = "a2" -> t2 [] c = "a3" -> t3]

\* Containment graphs: n1 and the two contours lie in any set of scopes (a
\* contour may hold itself, the contours may hold each other, a scope may be
\* reachable along several paths or not at all); n2 and a1 lie nowhere or in
\* c2, the bus lies in c2.
InitContours ==
  /\ \E pn1, pc1, pc2 \in SUBSET Scopes : \E pn2, pa1 \in {{}, {"c2"}} :
       children = ChildrenOf(
         [e \in Elements |->
            CASE e = "n1" -> pn1 [] e = "c1" -> pc1 [] e = "c2" -> pc2
              [] e = "n2" -> pn2 [] e = "a1" -> pa1
              [] e = "b1" -> {"c2"}
              [] OTHER -> {}])
  /\ target = [c \in Connectors |->
                 CASE c = "a1" -> "n2" [] c = "a2" -> "n1" [] c = "a3" -> "a1"]

Init ==
  /\ IdleCorrector
  /\ InitConnectors \/ InitContours
  /\ writtenElements = {}
  /\ buffer = <<>>
  /\ stack = <<>>
  /\ calls = 0

Next ==
  \/ WriteCall
  \/ WriteNode
  \/ ClassifyArcs
  \/ WriteConnector
  \/ BeginContours
  \/ WriteContour
  \/ Return

Spec == Init /\ [][Next]_vars

\* a step of a Write call in progress
WriteStep ==
  \/ WriteNode
  \/ ClassifyArcs
  \/ WriteConnector
  \/ BeginContours
  \/ WriteContour
  \/ Return

\* Write is sequential code: a call in progress keeps taking steps; nothing
\* obliges the caller to call again
SpecFair == Spec /\ WF_vars(WriteStep)

---------------------------------------------------------------------------
(* Properties of the identifier corrector (checked under SpecId).          *)

IsConnectorTag(tag) == tag = ARC \/ tag = PAIR

\* the element id with every dash replaced by an underscore, byte by byte
DashesToUnderscores(id) ==
  [i \in 1..Len(id) |-> IF id[i] = 45 THEN 95 ELSE id[i]]

\* every byte of the id is of the class [0-9a-zA-Z_] or a dash
IdIsLegalOrDash(id) ==
  \A i \in 1..Len(id) : id[i] \in EnglishClass \cup {45}

\* the raw identifier is natural-language text: it fails the legality
\* pattern and matches the extended pattern
IsNaturalText(raw) == ~IsEnglishIdentifier(raw) /\ IsRussianIdentifier(raw)

\* C4, as claimed: for every tag, raw identifier, type and id the system
\* identifier stored by GenerateSCsIdentifier matches ^[0-9a-zA-Z_]*$.
C4_LegalForEveryElement ==
  resolved => IsEnglishIdentifier(scsElement.identifierForSCs)

\* C4, amended: the system identifier matches ^[0-9a-zA-Z_]*$ for every
\* element that is not an Arc or a Pair and whose id holds only bytes of
\* [0-9a-zA-Z_] and dashes.
C4_LegalForNonConnectors ==
  (resolved /\ ~IsConnectorTag(scgElement.tag) /\ IdIsLegalOrDash(scgElement.id))
    => IsEnglishIdentifier(scsElement.identifierForSCs)

\* an illegal raw identifier of a node, regenerated from an id with a dash
C4_Witness ==
  /\ resolved
  /\ scgElement.tag = NODE
  /\ ~IsEnglishIdentifier(scgElement.identifier)
  /\ scgElement.id = <<49, 45, 50>>
  /\ scsElement.identifierForSCs = <<101, 108, 95, 49, 95, 50>>

\* C6, as claimed: after GenerateSCsIdentifier on an Arc or a Pair the
\* descriptor carries no main identifier, whatever the raw identifier is.
C6_ConnectorHasNoMainIdentifier ==
  (resolved /\ IsConnectorTag(scgElement.tag))
    => scsElement.mainIdentifier = <<>>

\* C7: the system identifier of an Arc or a Pair is the alias prefix, the
\* connector prefix, an underscore and the id with dashes replaced by
\* underscores, whatever the raw identifier and the type are.
C7_ConnectorAlias ==
  (resolved /\ IsConnectorTag(scgElement.tag))
    => scsElement.identifierForSCs =
         ALIAS_PREFIX \o CONNECTOR \o UNDERSCORE \o DashesToUnderscores(scgElement.id)

\* a variable Pair with a raw identifier of its own and two dashes in its id
C7_Witness ==
  /\ resolved
  /\ scgElement.tag = PAIR
  /\ IsVariable(scgElement.type)
  /\ scgElement.identifier = <<120, 49>>
  /\ scgElement.id = <<45, 49, 45>>
  /\ scsElement.identifierForSCs = ALIAS_PREFIX \o CONNECTOR \o <<95, 95, 49, 95>>

\* C8, as claimed: for an element of any tag whose type carries the
\* variable marker, the system identifier starts with an underscore.
C8_VariableStartsWithUnderscore ==
  (resolved /\ IsVariable(scgElement.type))
    => /\ scsElement.identifierForSCs # <<>>
       /\ scsElement.identifierForSCs[1] = 95

\* C8, amended: for a variable element that is not an Arc or a Pair the
\* system identifier starts with an underscore; a legal raw identifier that
\* starts with an underscore is kept, any other non-empty legal one gets
\* exactly one underscore prepended.
C8_VariableNonConnector ==
  (resolved /\ IsVariable(scgElement.type) /\ ~IsConnectorTag(scgElement.tag))
    => LET raw == scgElement.identifier
           sys == scsElement.identifierForSCs
       IN  /\ sys # <<>>
           /\ sys[1] = 95
           /\ (IsEnglishIdentifier(raw) /\ raw # <<>>) =>
                IF raw[1] = 95 THEN sys = raw ELSE sys = <<95>> \o raw

\* the variable node x1 of the scenario becomes _x1
C8_Witness ==
  /\ resolved
  /\ scgElement.tag = NODE
  /\ IsVariable(scgElement.type)
  /\ scgElement.identifier = <<120, 49>>
  /\ scsElement.identifierForSCs = <<95, 120, 49>>

\* C9: natural-language raw text never stays the system identifier (which
\* is regenerated from the id) and is kept verbatim, non-empty, as the main
\* identifier; a raw identifier that is legal (the empty one included), or
\* that fails both patterns, sets no main identifier.
C9_NaturalTextRouting ==
  resolved =>
    LET raw == scgElement.identifier
        sys == scsElement.identifierForSCs
        regenerated ==
          (IF IsVariable(scgElement.type) THEN EL_VAR_PREFIX ELSE EL_PREFIX)
            \o UNDERSCORE \o DashesToUnderscores(scgElement.id)
    IN  IF IsNaturalText(raw)
        THEN /\ sys # raw
             /\ ~IsConnectorTag(scgElement.tag) => sys = regenerated
             /\ scsElement.mainIdentifier = raw
             /\ scsElement.mainIdentifier # <<>>
        ELSE scsElement.mainIdentifier = <<>>

\* the Cyrillic letter as the raw identifier of a node
C9_Witness ==
  /\ resolved
  /\ scgElement.tag = NODE
  /\ scgElement.identifier = <<208, 159>>
  /\ scsElement.mainIdentifier = <<208, 159>>
  /\ scsElement.identifierForSCs # <<208, 159>>

---------------------------------------------------------------------------
(* Properties of Write (checked under Spec).                               *)

\* a top-level call has returned and no call is active
Done == stack = <<>> /\ calls >= 1

\* the first top-level call has returned and no later call was started
FirstCallDone == stack = <<>> /\ calls = 1

\* positions of the buffer that hold a statement of one of `kinds` for e
StatementsOf(e, kinds) ==
  {i \in DOMAIN buffer : buffer[i].el = e /\ buffer[i].kind \in kinds}

\* the scopes the traversal that starts at the top-level collection reaches
RECURSIVE ScopesReachedFrom(_)
ScopesReachedFrom(scopes) ==
  LET more == scopes \cup {c \in Contours : \E s \in scopes : c \in children[s]}
  IN  IF more = scopes THEN scopes ELSE ScopesReachedFrom(more)

ReachedScopes == ScopesReachedFrom({TopScope})

InReachedScope(e) == \E s \in ReachedScopes : e \in children[s]

\* the connectors that target e, in any scope
TargetedBy(e) == {a \in Connectors : target[a] = e}

\* C1: no element (node, connector or contour) has its statement appended
\* to the buffer more than once, whatever the graph: an element held by
\* several contours, a contour reachable along several paths.
C1_WrittenAtMostOnce ==
  \A e \in Elements :
    /\ Cardinality(StatementsOf(e, {"node", "edge", "open"})) <= 1
    /\ Cardinality(StatementsOf(e, {"close"})) <= 1

\* n1 lies in both contours, c2 is reachable from the top level and through
\* c1, and the call has written each of them
C1_Witness ==
  /\ FirstCallDone
  /\ {"c1", "c2"} \subseteq children[TopScope]
  /\ "c2" \in children["c1"]
  /\ "n1" \in children["c1"] /\ "n1" \in children["c2"]
  /\ Cardinality(StatementsOf("n1", {"node"})) = 1
  /\ Cardinality(StatementsOf("c2", {"open"})) = 1

\* C2: a connector whose target is a connector is never emitted as an edge
\* statement of its own and never enters the write-once set.
C2_AttributeArcNeverWritten ==
  \A a \in Connectors :
    IsConnector(target[a]) =>
      /\ a \notin writtenElements
      /\ StatementsOf(a, {"node", "edge", "open", "close"}) = {}

\* a2 targets a1 in the top-level collection; a1 has been written in ternary
\* form with the source of a2, a2 has not been written
C2_Witness ==
  /\ FirstCallDone
  /\ target["a2"] = "a1"
  /\ {"a1", "a2"} \subseteq children[TopScope]
  /\ "a2" \notin writtenElements
  /\ \E i \in StatementsOf("a1", {"edge"}) :
       /\ buffer[i].form = "ternary"
       /\ buffer[i].attr = GetIdentifier("n3")

\* C3, as claimed: every connector B that some connector targets and that
\* lies in a reached scope has exactly one edge statement, whose incident
\* source, in ternary form, is the source of a connector that targets B;
\* also when B itself targets a connector or a connector targets itself.
C3_TargetedConnectorWrittenOnce ==
  Done =>
    \A b \in Connectors :
      (TargetedBy(b) # {} /\ InReachedScope(b)) =>
        /\ Cardinality(StatementsOf(b, {"edge"})) = 1
        /\ \A i \in StatementsOf(b, {"edge"}) :
             buffer[i].form = "ternary" =>
               \E a \in TargetedBy(b) :
                 buffer[i].attr = NodeIdentifierOrFallback(GetSource(a))

\* C3, amended: a connector B that some connector targets, that lies in a
\* reached scope and that does not itself target a connector has exactly one
\* edge statement.  The statement is ternary exactly when the collection
\* whose Write invocation emits it holds a connector that targets B, and its
\* incident source is then the source of such a connector of that
\* collection; otherwise it is binary.  A connector that targets a connector
\* (a chain, or itself) has no statement.
C3_TargetedConnectorStatement ==
  Done =>
    \A b \in Connectors :
      (TargetedBy(b) # {} /\ InReachedScope(b)) =>
        IF IsConnector(target[b])
        THEN StatementsOf(b, {"edge"}) = {}
        ELSE /\ Cardinality(StatementsOf(b, {"edge"})) = 1
             /\ \A i \in StatementsOf(b, {"edge"}) :
                  LET incoming == TargetedBy(b) \cap children[buffer[i].scope]
                  IN  /\ b \in children[buffer[i].scope]
                      /\ buffer[i].source = NodeIdentifierOrFallback(GetSource(b))
                      /\ buffer[i].target = NodeIdentifierOrFallback(target[b])
                      /\ IF incoming = {}
                         THEN buffer[i].form = "binary" /\ buffer[i].attr = <<>>
                         ELSE /\ buffer[i].form = "ternary"
                              /\ \E a \in incoming :
                                   buffer[i].attr =
                                     NodeIdentifierOrFallback(GetSource(a))

\* a2 and a3 both target a1, all three in the top-level collection only, and
\* a1 has its ternary statement
C3_Witness ==
  /\ FirstCallDone
  /\ target["a2"] = "a1" /\ target["a3"] = "a1" /\ target["a1"] = "n2"
  /\ \A a \in Connectors : a \in children[TopScope] /\ a \notin children["c1"]
  /\ \E i \in StatementsOf("a1", {"edge"}) : buffer[i].form = "ternary"

\* the descriptor GenerateSCsIdentifier gives element e
ResolvedIdentifier(e) ==
  GenerateSCsIdentifier(
    [tag |-> GetTag(e), id |-> GetId(e), identifier |-> GetIdentifier(e),
     type |-> GetType(e)],
    NewSCsElement).identifierForSCs

\* "bus_"
BusPrefix == <<98, 117, 115, 95>>

\* the <kind>_<id> fallback name of e
KindFallback(e) ==
  (CASE GetTag(e) = CONTOUR -> ContourPrefix
     [] GetTag(e) = BUS -> BusPrefix
     [] OTHER -> NodePrefix) \o GetId(e)

\* C5, as claimed: every identifier Write appends (a node's declaration
\* line, the operands of an edge, a contour's header) matches
\* ^[0-9a-zA-Z_]*$, and a node or contour is declared under its resolved
\* system identifier or under the <kind>_<id> fallback, never under raw
\* natural-language text.
C5_EmitsResolvedIdentifiers ==
  \A i \in DOMAIN buffer :
    LET r == buffer[i]
    IN  /\ r.kind \in {"node", "open"} =>
             /\ r.identifier \in {ResolvedIdentifier(r.el), KindFallback(r.el)}
             /\ IsEnglishIdentifier(r.identifier)
        /\ r.kind = "edge" =>
             /\ IsEnglishIdentifier(r.source)
             /\ IsEnglishIdentifier(r.target)
             /\ IsEnglishIdentifier(r.attr)

\* the top-level collection holds only contour c1, which holds only node n1
SingleNodeContour ==
  /\ children[TopScope] = {"c1"}
  /\ children["c1"] = {"n1"}

\* C10, as claimed: the output is the header of the contour, then the
\* declaration of n1, then the closing marker.
C10_NodeInsideContour ==
  (FirstCallDone /\ SingleNodeContour) =>
    /\ Len(buffer) = 3
    /\ buffer[1].kind = "open" /\ buffer[1].el = "c1"
    /\ buffer[1].identifier = ContourPrefix \o GetId("c1")
    /\ buffer[2].kind = "node" /\ buffer[2].el = "n1"
    /\ buffer[3].kind = "close" /\ buffer[3].el = "c1"

\* C10, amended: the output is the declaration of n1 at the depth of the
\* call, then the header contour_<id> = [* of the contour, then its closing
\* marker, with nothing between the header and the closing marker.
C10_NodeBeforeContour ==
  (FirstCallDone /\ SingleNodeContour) =>
    /\ Len(buffer) = 3
    /\ buffer[1].kind = "node" /\ buffer[1].el = "n1"
    /\ buffer[1].identifier = <<110, 49>> /\ buffer[1].depth = 0
    /\ buffer[2].kind = "open" /\ buffer[2].el = "c1"
    /\ buffer[2].identifier = <<99, 111, 110, 116, 111, 117, 114, 95, 55>>
    /\ buffer[2].depth = 0
    /\ buffer[3].kind = "close" /\ buffer[3].el = "c1" /\ buffer[3].depth = 0

\* the call on the single-node contour has returned
C10_Witness ==
  /\ FirstCallDone
  /\ SingleNodeContour
  /\ Len(buffer) = 3

---------------------------------------------------------------------------
(* Relation edges, buses and fallback names.                               *)

\* "nrel_" and "rrel_", the two relation-name prefixes
RelationPrefixes == {<<110, 114, 101, 108, 95>>, <<114, 114, 101, 108, 95>>}

HasRelationPrefix(type) == \E p \in RelationPrefixes : StartsWith(type, p)

\* C11, as claimed: a connector of the scope whose type carries a relation-
\* name prefix is emitted as a named relation edge with the arrow => (or <=
\* when the element rendered is its target), never in binary or ternary form.
C11_RelationEdge ==
  \A i \in DOMAIN buffer :
    (buffer[i].kind = "edge" /\ HasRelationPrefix(GetType(buffer[i].el))) =>
      /\ buffer[i].symbol \in {"=>", "<="}
      /\ buffer[i].form \notin {"binary", "ternary"}

\* C12, as claimed: every bus of a scope the traversal visits is emitted
\* once, as an identifier line and a type line, and enters the write-once set.
C12_BusWritten ==
  Done =>
    \A b \in Buses :
      InReachedScope(b) =>
        /\ b \in writtenElements
        /\ Cardinality(StatementsOf(b, {"bus"})) = 1

\* the name an element is declared under: its identifier, or <kind>_<id>
DeclaredName(e) ==
  IF GetIdentifier(e) = <<>> THEN KindFallback(e) ELSE GetIdentifier(e)

\* C13, as claimed: an endpoint without identifier is referred to as
\* <kind>_<id> with its own kind, so the source and target operands of an
\* edge are the names under which a node, contour or bus endpoint is declared.
C13_EndpointNamedAsDeclared ==
  \A i \in DOMAIN buffer :
    buffer[i].kind = "edge" =>
      LET src == GetSource(buffer[i].el)
          tgt == target[buffer[i].el]
      IN  /\ ~IsConnector(src) => buffer[i].source = DeclaredName(src)
          /\ ~IsConnector(tgt) => buffer[i].target = DeclaredName(tgt)

---------------------------------------------------------------------------
(* Repeated calls, order of the output, CollectNodes, termination.         *)

\* C14: a second Write call on the same collection, at any depth, with the
\* write-once set a completed first call left, appends nothing to the buffer
\* and leaves the write-once set unchanged.
C14_SecondCallIsIdle ==
  [][calls' >= 2 => (buffer' = buffer /\ writtenElements' = writtenElements)]_vars

\* a second call at depth 1 has run through its three loops, on a collection
\* with nodes, a written connector and a contour
C14_Witness ==
  /\ calls = 2
  /\ stack # <<>>
  /\ Top.depth = 1 /\ Top.pc = "contours" /\ Top.todo = {}
  /\ "c1" \in children[TopScope]
  /\ "a1" \in children[TopScope] /\ "a1" \in writtenElements
  /\ Len(buffer) >= 4

\* the place of a statement in the order of one Write invocation: node
\* declarations, then connector statements, then contours
PhaseOf(kind) ==
  CASE kind = "node" -> 1 [] kind = "edge" -> 2 [] OTHER -> 3

Unbalanced == <<"unbalanced">>

\* the contours open after the first n statements of the buffer, innermost
\* first; Unbalanced when a closing marker does not close the innermost open
\* contour at its header's depth, or when a statement between a header and
\* its closing marker is not a statement of that contour's invocation at
\* the header's depth + 1
RECURSIVE OpenContoursAfter(_)
OpenContoursAfter(n) ==
  IF n = 0 THEN <<>>
  ELSE LET open == OpenContoursAfter(n - 1)
           r == buffer[n]
       IN  IF open = Unbalanced THEN Unbalanced
           ELSE IF r.kind = "close"
           THEN IF open # <<>> /\ Head(open) = r.el /\ r.depth = Len(open) - 1
                THEN Tail(open) ELSE Unbalanced
           ELSE IF \/ r.depth # Len(open)
                   \/ r.scope # (IF open = <<>> THEN TopScope ELSE Head(open))
           THEN Unbalanced
           ELSE IF r.kind = "open" THEN <<r.el>> \o open ELSE open

\* C15: within one Write invocation every node declaration precedes every
\* connector statement, and every connector statement every contour header;
\* the body of a contour is emitted at depth + 1 strictly between its
\* header and its closing marker, so headers and closing markers are
\* balanced and properly nested.
C15_OrderedAndNested ==
  /\ \A i, j \in DOMAIN buffer :
       (i < j /\ buffer[i].scope = buffer[j].scope) =>
         PhaseOf(buffer[i].kind) <= PhaseOf(buffer[j].kind)
  /\ OpenContoursAfter(Len(buffer)) # Unbalanced
  /\ stack = <<>> => OpenContoursAfter(Len(buffer)) = <<>>

\* c2 lies in c1 only, a1 and n2 in c2: the edge of a1 is written at depth 2
\* between the headers and the closing markers of c1 and c2
C15_Witness ==
  /\ FirstCallDone
  /\ children[TopScope] = {"c1"}
  /\ "c2" \in children["c1"]
  /\ {"a1", "n2"} \subseteq children["c2"]
  /\ \E i, j, k \in DOMAIN buffer :
       /\ i < j /\ j < k
       /\ buffer[i].kind = "open" /\ buffer[i].el = "c2" /\ buffer[i].depth = 1
       /\ buffer[j].kind = "edge" /\ buffer[j].el = "a1" /\ buffer[j].depth = 2
       /\ buffer[k].kind = "close" /\ buffer[k].el = "c2"

NoDuplicates(seq) ==
  \A i, j \in DOMAIN seq : seq[i] = seq[j] => i = j

\* the contours that are children of scope or transitively nested in it
ContoursNestedIn(scope) ==
  {c \in Contours : \E s \in ScopesReachedFrom({scope}) : c \in children[s]}

\* C16: called with empty sets on the elements of a scope, CollectNodes
\* returns exactly the Node-tagged elements (links included) of the scope
\* and of the contours transitively nested in it, makes at most one
\* recursive call per contour, and collects no connector, contour or bus.
C16_CollectNodesExact ==
  \A scope \in DOMAIN children :
    LET result == CollectNodes(GetElements(scope), {}, {})
    IN  /\ result.nodes =
             {e \in Nodes : \E s \in ScopesReachedFrom({scope}) : e \in children[s]}
        /\ result.nodes \cap (Connectors \cup Contours \cup Buses) = {}
        /\ NoDuplicates(result.entered)
        /\ {result.entered[i] : i \in DOMAIN result.entered} = ContoursNestedIn(scope)
        /\ result.visitedContours = ContoursNestedIn(scope)

\* Write has just called CollectNodes on the top-level collection, in which
\* c2 is reached both directly and through c1, c1 lies in c2, and the link
\* n2 and the connector a1 lie in c2 only
C16_Witness ==
  /\ calls = 1
  /\ Len(stack) = 1
  /\ Top.pc = "nodes"
  /\ {"c1", "c2"} \subseteq children[TopScope]
  /\ "c2" \in children["c1"]
  /\ "c1" \in children["c2"]
  /\ {"n2", "a1"} \subseteq children["c2"]
  /\ {"n2", "a1"} \cap children[TopScope] = {}
  /\ "n2" \in Top.todo
  /\ Top.todo = CollectNodes(GetElements(TopScope), {}, {}).nodes

\* C17: in every Write invocation each connector of the scope that is in
\* complexArcs is targeted by a connector of the same scope, an attributeArcs
\* member; so every statement written from the complexArcs branch is
\* ternary with a non-empty incident-source operand, the identifier of the
\* source of such a connector, and the binary fallback of the branch is
\* never taken.
C17_ComplexArcHasIncidentSource ==
  /\ \A k \in DOMAIN stack :
       stack[k].pc # "nodes" =>
         \A e \in stack[k].complexArcs \cap GetElements(stack[k].scope) :
           /\ IsConnector(e)
           /\ IncomingConnectors(GetElements(stack[k].scope), e) # {}
           /\ IncomingConnectors(GetElements(stack[k].scope), e)
                \subseteq stack[k].attributeArcs
  /\ \A i \in DOMAIN buffer :
       (/\ buffer[i].kind = "edge"
        /\ buffer[i].el \in ComplexArcs(GetElements(buffer[i].scope))) =>
         /\ buffer[i].form = "ternary"
         /\ buffer[i].attr # <<>>
         /\ \E incoming \in IncomingConnectors(GetElements(buffer[i].scope),
                                               buffer[i].el) :
              buffer[i].attr = NodeIdentifierOrFallback(GetSource(incoming))

\* a1 is targeted by the pair a2 only, both in c1, and has been written in
\* ternary form with the source of a2 as its incident source
C17_Witness ==
  /\ target["a2"] = "a1"
  /\ target["a3"] # "a1"
  /\ target["a1"] = "n2"
  /\ {"a1", "a2"} \subseteq children["c1"]
  /\ \E i \in DOMAIN buffer :
       /\ buffer[i].kind = "edge"
       /\ buffer[i].el = "a1"
       /\ buffer[i].scope = "c1"
       /\ buffer[i].form = "ternary"
       /\ buffer[i].attr = NodeIdentifierOrFallback(GetSource("a2"))

\* the number of recursive calls of Write made for contour c: each follows
\* the header of c
RecursionsInto(c) == Cardinality(StatementsOf(c, {"open"}))

\* C18: a top-level Write call terminates on every finite graph, also when
\* a contour contains itself directly or transitively: a contour is in the
\* write-once set before Write recurses into it, Write recurses into each
\* contour at most once, no contour is being written twice at the same
\* time, CollectNodes enters each contour at most once per call, and every
\* call in progress returns.
C18_WriteTerminates ==
  /\ [](\A c \in Contours :
          /\ RecursionsInto(c) <= 1
          /\ \A k, l \in DOMAIN stack :
               (stack[k].scope = c /\ stack[l].scope = c) => k = l
          /\ \A k \in DOMAIN stack :
               (stack[k].scope = c \/ stack[k].contour = c) => c \in writtenElements
          /\ NoDuplicates(CollectNodes(GetElements(c), {}, {}).entered))
  /\ [](NoDuplicates(CollectNodes(GetElements(TopScope), {}, {}).entered))
  /\ []<>(stack = <<>>)

\* the first call has returned on a graph in which c1 holds itself and c2,
\* c2 holds c1, and both were entered
C18_Witness ==
  /\ FirstCallDone
  /\ "c1" \in children[TopScope]
  /\ {"c1", "c2"} \subseteq children["c1"]
  /\ "c1" \in children["c2"]
  /\ RecursionsInto("c1") = 1
  /\ RecursionsInto("c2") = 1

\* the elements for which a statement has been appended to the buffer
EmittedElements == {buffer[i].el : i \in DOMAIN buffer}

\* C19: the write-once set is exactly the set of elements whose statement
\* was emitted; after a top-level call that started with the empty set,
\* every node of the collection or of a contour transitively nested in it
\* has exactly one declaration, and every such contour exactly one header
\* and one closing marker.
C19_CompleteAndExact ==
  /\ writtenElements = EmittedElements
  /\ Done =>
       /\ \A n \in Nodes : InReachedScope(n) =>
            /\ Cardinality(StatementsOf(n, {"node"})) = 1
            /\ StatementsOf(n, {"edge", "open", "close", "bus"}) = {}
       /\ \A c \in Contours : InReachedScope(c) =>
            /\ Cardinality(StatementsOf(c, {"open"})) = 1
            /\ Cardinality(StatementsOf(c, {"close"})) = 1
            /\ \A i \in StatementsOf(c, {"open"}) :
                 \A j \in StatementsOf(c, {"close"}) : i < j

\* the first call has returned; c1 holds itself and c2, c2 is reached
\* through c1 only, the link n2 lies in c2 only, n1 lies in every scope
C19_Witness ==
  /\ FirstCallDone
  /\ children[TopScope] = {"n1", "c1"}
  /\ {"n1", "c1", "c2"} \subseteq children["c1"]
  /\ {"n1", "n2"} \subseteq children["c2"]
  /\ {"n1", "n2", "c1", "c2"} \subseteq writtenElements
  /\ Cardinality(StatementsOf("n2", {"node"})) = 1

===========================================================================
